---- MODULE Spec2Model ----
(***************************************************************************)
(* Model of the directional clustering engine of the stereonet package     *)
(* (class ClusteringModels in clustering_models.ts): pole-vector           *)
(* transform, angular metric, DBSCAN, OPTICS ordering and extraction, and  *)
(* the two facades dbscanPlanes / opticsClusterPlanes.                     *)
(*                                                                         *)
(* Numbers.  The source computes in IEEE doubles and radians.  Here every  *)
(* angle is a whole number of degrees and every vector component is a      *)
(* fixed-point integer scaled by Scale; sines come from SinTable.  A       *)
(* distance is the angle in degrees rounded to the nearest whole degree,   *)
(* so comparisons of distances keep the order the source sees up to that   *)
(* rounding.  Infinity and undefined are the sentinels below.              *)
(***************************************************************************)
EXTENDS Integers, Sequences, FiniteSets, TLC

\* ------------------------------------------------------------------ numbers

\* Fixed-point scale of vector components and of SinTable.
Scale == 40000

\* Number.POSITIVE_INFINITY: larger than every angle in degrees (<= 180).
Infinity == 1000

\* The JavaScript value undefined where a number is expected (within[k-1]
\* past the array, sorted[...] past the array).  Every comparison with it is
\* false and isFinite(undefined) is false.
Undefined == 0 - 999

\* Scale * sin(k degrees), k = 0..90, rounded (index k+1).
SinTable ==
  <<0, 698, 1396, 2093, 2790, 3486, 4181, 4875, 5567, 6257,
     6946, 7632, 8316, 8998, 9677, 10353, 11025, 11695, 12361, 13023,
     13681, 14335, 14984, 15629, 16269, 16905, 17535, 18160, 18779, 19392,
     20000, 20602, 21197, 21786, 22368, 22943, 23511, 24073, 24626, 25173,
     25712, 26242, 26765, 27280, 27786, 28284, 28774, 29254, 29726, 30188,
     30642, 31086, 31520, 31945, 32361, 32766, 33162, 33547, 33922, 34287,
     34641, 34985, 35318, 35640, 35952, 36252, 36542, 36820, 37087, 37343,
     37588, 37821, 38042, 38252, 38450, 38637, 38812, 38975, 39126, 39265,
     39392, 39508, 39611, 39702, 39781, 39848, 39903, 39945, 39976, 39994,
     40000>>

\* JavaScript a % m: the result takes the sign of the dividend.
JsMod(a, m) == IF a >= 0 THEN a % m ELSE 0 - ((0 - a) % m)

norm360(a) == JsMod(JsMod(a, 360) + 360, 360)

\* Math.sin / Math.cos of a whole number of degrees, scaled by Scale.
SinDeg(a) ==
  LET r == norm360(a)
  IN  IF r <= 90 THEN SinTable[r + 1]
      ELSE IF r <= 180 THEN SinTable[180 - r + 1]
      ELSE IF r <= 270 THEN 0 - SinTable[r - 180 + 1]
      ELSE 0 - SinTable[360 - r + 1]

CosDeg(a) == SinDeg(a + 90)

\* Product of two fixed-point numbers, rounded to the nearest unit.
FxMul(a, b) == (a * b + Scale \div 2) \div Scale

\* F applied to the value of v: a JavaScript argument or local is evaluated
\* once, before the body that uses it.
Once(v, F(_)) == CHOOSE r \in {F(w) : w \in {v}} : TRUE

\* Math.acos of a fixed-point product (scaled by Scale*Scale), in whole
\* degrees: the number of half-degree boundaries the cosine lies below.
AcosBounds == [k \in 1..180 |-> (CosDeg(k - 1) + CosDeg(k)) * (Scale \div 2)]

AcosDeg(c) == Once(c, LAMBDA v : Cardinality({k \in 1..180 : v < AcosBounds[k]}))

\* Math.max / Math.min on numbers.
Max(a, b) == IF a >= b THEN a ELSE b
Min(a, b) == IF a <= b THEN a ELSE b

\* isFinite(v)
isFinite(v) == v # Infinity /\ v # Undefined

\* ------------------------------------------------------- pole-vector space

\* plane (dip, dipDir) -> pole unit vector (lower hemisphere)
planeToPoleVector(dip, dipDir) ==
  LET trend  == norm360(dipDir + 180)
      plunge == 90 - dip
      x == FxMul(CosDeg(plunge), SinDeg(trend))
      y == FxMul(CosDeg(plunge), CosDeg(trend))
      z == SinDeg(plunge)
  IN  IF z < 0 THEN [x |-> 0 - x, y |-> 0 - y, z |-> 0 - z]
      ELSE [x |-> x, y |-> y, z |-> z]

\* acos of the clamped dot product, in degrees
angularDistance(a, b) ==
  LET dot == Max(0 - Scale * Scale, Min(Scale * Scale, a.x * b.x + a.y * b.y + a.z * b.z))
  IN  AcosDeg(dot)

\* Integer square root by bisection: lo*lo <= n < hi*hi.
RECURSIVE IsqrtRec(_, _, _)
IsqrtRec(n, lo, hi) ==
  IF hi - lo <= 1 THEN lo
  ELSE Once((lo + hi) \div 2, LAMBDA mid :
         IF mid * mid <= n THEN IsqrtRec(n, mid, hi) ELSE IsqrtRec(n, lo, mid))

\* Math.sqrt of a fixed-point square (scaled by Scale*Scale), scaled by Scale.
Isqrt(n) == Once(n, LAMBDA v : IsqrtRec(v, 0, 46341))

\* Atan2Deg without the sign of x.
Atan2Deg_unsigned(x, y) ==
  Once(Isqrt(x * x + y * y), LAMBDA h :
    IF h = 0 THEN 0
    ELSE AcosDeg(Max(0 - Scale, Min(Scale, (y * Scale) \div h)) * Scale))

\* Math.atan2(x, y) in whole degrees, in (-180, 180]; atan2(0, 0) = 0.
Atan2Deg(x, y) ==
  Once(Isqrt(x * x + y * y), LAMBDA h :
    LET a == IF h = 0 THEN 0
             ELSE AcosDeg(Max(0 - Scale, Min(Scale, (y * Scale) \div h)) * Scale)
    IN  IF x >= 0 THEN a ELSE 0 - a)

RECURSIVE SumOf(_, _, _)
\* vecs.reduce((s, v) => s + v[c], 0) over the first k elements
SumOf(vecs, c, k) ==
  IF k = 0 THEN 0 ELSE SumOf(vecs, c, k - 1) + vecs[k][c]

\* Spherical mean of pole vectors, converted back to (dip, dipDirection).
\* The component sums are divided by the number of vectors before squaring
\* (the direction is unchanged, the squares stay within machine integers);
\* a zero-length sum falls back to length 1, as `|| 1` does.
meanPoleVectorsToPlane(vecs) ==
  LET n == IF Len(vecs) = 0 THEN 1 ELSE Len(vecs)
  IN  Once(<<SumOf(vecs, "x", Len(vecs)) \div n,
             SumOf(vecs, "y", Len(vecs)) \div n,
             SumOf(vecs, "z", Len(vecs)) \div n>>, LAMBDA s :
      Once(Isqrt(s[1] * s[1] + s[2] * s[2] + s[3] * s[3]), LAMBDA l0 :
        LET len == IF l0 = 0 THEN Scale ELSE l0
            x0  == (s[1] * Scale) \div len
            y0  == (s[2] * Scale) \div len
            z0  == (s[3] * Scale) \div len
            x   == IF z0 < 0 THEN 0 - x0 ELSE x0
            y   == IF z0 < 0 THEN 0 - y0 ELSE y0
            z   == IF z0 < 0 THEN 0 - z0 ELSE z0
            plunge == 90 - AcosDeg(Min(Scale, z) * Scale)
            trend  == norm360(Atan2Deg(x, y))
            dip    == 90 - plunge
            dipDir == norm360(trend - 180)
        IN  [dipAngle |-> dip, dipDirection |-> dipDir]))

\* ------------------------------------------------------------------ bounds

\* Largest input population of the general specification.
MaxN == 3

\* Largest input population of the collinear (great-circle) specification.
MaxLineN == 7

\* Number of facade calls made in one behaviour.
MaxCalls == 2

\* Largest input population drawn from the whole hemisphere.
MaxSphereN == 3

\* Number of Stereonet method calls made in one behaviour.
MaxNetOps == 4

\* ------------------------------------------------------------------ inputs

\* Orientations <<dipAngle, dipDirection>> the input samples are drawn from:
\* three poles on one great circle, 10, 20 and 30 degrees apart.
Orients == {<<30, 110>>, <<40, 110>>, <<60, 110>>}

\* Orientations on one great circle, 10 degrees apart.
LineOrients == {<<10, 110>>, <<20, 110>>, <<30, 110>>, <<40, 110>>, <<50, 110>>}

\* Orientations spread over the hemisphere: the documented sample (30,110),
\* shallow and steep dips, and steep planes dipping in opposite directions.
SphereOrients ==
  {<<30, 110>>, <<45, 220>>, <<10, 359>>, <<89, 0>>, <<80, 0>>, <<80, 180>>}

\* Dips of the second half of the first group and of the second group.
SpreadDips == {10, 12, 14}
FarDips == {50, 60}

AllOrients ==
  Orients \cup LineOrients \cup SphereOrients \cup {<<d, 110>> : d \in SpreadDips \cup FarDips}

\* mkPlane(dip, dipDir): a PlaneData object (the path is rendering state).
mkPlane(dip, dipDir) == [dipAngle |-> dip, dipDirection |-> dipDir, color |-> "null"]

\* Input populations: every sequence of at most MaxN samples.
Populations ==
  UNION {[1..k -> {mkPlane(o[1], o[2]) : o \in Orients}] : k \in 0..MaxN}

\* Input populations on the great circle, listed by increasing dip.
LinePopulations ==
  UNION {{s \in [1..k -> {mkPlane(o[1], o[2]) : o \in LineOrients}] :
            \A j \in 1..(k - 1) : s[j].dipAngle <= s[j + 1].dipAngle} : k \in 0..MaxLineN}

\* Input populations over the hemisphere.
SpherePopulations ==
  UNION {[1..k -> {mkPlane(o[1], o[2]) : o \in SphereOrients}] : k \in 0..MaxSphereN}

\* Populations of 20 samples in two groups of 10: the first group lies within
\* 4 degrees (five samples at dip 10, five at a dip of SpreadDips), the second
\* group is ten equal samples at least 36 degrees away.
TwoGroupPopulations ==
  {[j \in 1..20 |-> IF j <= 5 THEN mkPlane(10, 110)
                    ELSE IF j <= 10 THEN mkPlane(d, 110) ELSE mkPlane(e, 110)] :
     d \in SpreadDips, e \in FarDips}

\* The default palette of both facades.
DefaultPalette ==
  <<"#e41a1c", "#377eb8", "#4daf4a", "#984ea3", "#ff7f00", "#a65628", "#f781bf", "#999999">>

\* The palette field of options given without a palette.
NoPalette == <<"undefined">>

\* Palettes passed by callers: one colour and two colours.
CallerPalettes == {<<"#111111">>, <<"#111111", "#222222">>}

\* Option records.  A field holding Undefined is an option the caller left out.
NoOpts ==
  [epsDeg |-> Undefined, minPts |-> Undefined, epsMaxDeg |-> Undefined,
   quantile |-> Undefined, minClusterSize |-> Undefined, palette |-> NoPalette]

\* DBSCANOptions the calls are made with (out-of-range values included), and
\* options with a caller palette.
DbscanOpts ==
  {[NoOpts EXCEPT !.epsDeg = e, !.minPts = m] : e \in {0 - 1, 10, 20}, m \in {0 - 1, 0, 1, 2, 3}}
    \cup {[NoOpts EXCEPT !.epsDeg = 10, !.minPts = 1, !.palette = c] : c \in CallerPalettes}

\* In-range DBSCANOptions of the great-circle specification.
LineDbscanOpts ==
  {[NoOpts EXCEPT !.epsDeg = 10, !.minPts = m] : m \in {3, 4}}

\* DBSCAN options of the calls on hemisphere populations.
SphereDbscanOpts ==
  {[NoOpts EXCEPT !.epsDeg = 10, !.minPts = m] : m \in {1, 2}}

\* OPTICS options the calls are made with; quantile is in percent.
OpticsOpts ==
  {[NoOpts EXCEPT !.minPts = m, !.epsMaxDeg = e, !.quantile = q, !.minClusterSize = c] :
     m \in {0 - 1, 0, 1, 2, 3}, e \in {Undefined, 10}, q \in {50, 75, 100}, c \in {0, 2, 3}}
    \cup {[NoOpts EXCEPT !.minPts = 1, !.epsMaxDeg = 10, !.quantile = 50,
                         !.minClusterSize = 1, !.palette = c] : c \in CallerPalettes}

\* OPTICS options of the two-group scenario: no epsMaxDeg.
TwoGroupOpts ==
  {[NoOpts EXCEPT !.minPts = 5, !.quantile = 75, !.minClusterSize = 8]}

\* OPTICS options of the calls that exercise the extraction on the two-group
\* populations.
ExtractOpts ==
  {[NoOpts EXCEPT !.minPts = m, !.quantile = q, !.minClusterSize = c] :
     m \in {2, 5}, q \in {50, 75, 90}, c \in {4, 5, 9}}

\* a ?? b
Dflt(a, b) == IF a = Undefined THEN b ELSE a

\* ------------------------------------------------------------------- state

VARIABLES
  planes,        \* the caller's input array of PlaneData objects
  pc,            \* position of the running call: idle, dbscan, expand, optics, seeds, ordered, done
  op,            \* the facade being executed
  opts,          \* its options
  i,             \* outer loop index of dbscanPlanes / opticsOrder
  visited,       \* dbscanPlanes: visited[]
  label,         \* dbscanPlanes: label[]; -1 = unassigned, -2 = noise
  clustersIdx,   \* dbscanPlanes: member indices of each cluster
  queue,         \* dbscanPlanes: expansion queue of the current cluster
  qi,            \* dbscanPlanes: position in queue
  state,         \* opticsOrder: UNPROC / PROC per sample
  reachability,  \* opticsOrder: reachability[]
  coreDist,      \* opticsOrder: coreDist[]
  order,         \* opticsOrder: order[]
  result,        \* value returned by the facade
  prev,          \* the previous completed call: facade, options and result
  calls,         \* number of completed calls
  netPlanes,     \* Stereonet.planes: Map entries in insertion order
  netLines,      \* Stereonet.lines: Map entries in insertion order
  netClusters,   \* Stereonet.clusters: Map entries in insertion order
  arrays,        \* the cluster_planes arrays, by reference
  netRet,        \* the last Stereonet call: method, arguments, returned ID
  netCount       \* number of Stereonet calls made

vars == <<planes, pc, op, opts, i, visited, label, clustersIdx, queue, qi,
          state, reachability, coreDist, order, result, prev, calls,
          netPlanes, netLines, netClusters, arrays, netRet, netCount>>

dbscanVars == <<visited, label, clustersIdx, queue, qi>>
opticsVars == <<state, reachability, coreDist, order>>
netVars == <<netPlanes, netLines, netClusters, arrays, netRet, netCount>>

UNPROC == 0
PROC == 1

n == Len(planes)

\* [1, 2, ..., k]
Indices(k) == [j \in 1..k |-> j]

\* arr.includes(v)
Includes(arr, v) == \E j \in 1..Len(arr) : arr[j] = v

\* Pole vector and pairwise distance of every orientation, computed once.
PoleTable == [o \in AllOrients |-> planeToPoleVector(o[1], o[2])]
DistTable == [a \in AllOrients, b \in AllOrients |-> angularDistance(PoleTable[a], PoleTable[b])]

\* vecs = planes.map(p => planeToPoleVector(p.dipAngle, p.dipDirection))
vecs == [j \in 1..n |-> PoleTable[<<planes[j].dipAngle, planes[j].dipDirection>>]]

\* angularDistance(vecs[a], vecs[b])
dist(a, b) ==
  DistTable[<<planes[a].dipAngle, planes[a].dipDirection>>,
            <<planes[b].dipAngle, planes[b].dipDirection>>]

\* No value has been returned yet.
NoResult == [returned |-> FALSE, threw |-> FALSE, clusters |-> <<>>, outliers |-> <<>>]

NoCall == [op |-> "none", opts |-> NoOpts, result |-> NoResult]

\* The caller: at most MaxCalls calls in a behaviour, and a later call repeats
\* the earlier one (same facade, same options, same input array).
MayCall(f, o) ==
  /\ calls < MaxCalls
  /\ prev.op = "none" \/ (prev.op = f /\ prev.opts = o)

\* ------------------------------------------------------------ dbscanPlanes

\* epsRad = toRad(opts.epsDeg ?? 10), kept in degrees
epsOf(o) == Dflt(o.epsDeg, 10)

\* minPtsOf with the threshold one too low.
minPtsOf_offByOne(o) == Dflt(o.minPts, 4) - 1

\* minPts = opts.minPts ?? 4
minPtsOf(o) == Dflt(o.minPts, 4)

\* neighbors with a strict comparison.
neighbors_strict(a, eps) == SelectSeq(Indices(n), LAMBDA j : dist(a, j) < eps)

\* neighbors(i): indices j with angularDistance(vecs[i], vecs[j]) <= eps, ascending
neighbors(a, eps) == SelectSeq(Indices(n), LAMBDA j : dist(a, j) <= eps)

\* new Array<boolean>(n).fill(false)
freshVisited(k) == [j \in 1..k |-> FALSE]

\* freshLabel reusing the array of the previous call when it has the same length.
freshLabel_stale(k) == IF Len(label) = k THEN label ELSE [j \in 1..k |-> 0 - 1]

\* new Array<number>(n).fill(-1)
freshLabel(k) == [j \in 1..k |-> 0 - 1]

\* for (const k of neigh2) if (!queue.includes(k)) queue.push(k)
RECURSIVE pushNew(_, _, _)
pushNew(q, neigh2, k) ==
  IF k > Len(neigh2) THEN q
  ELSE pushNew(IF Includes(q, neigh2[k]) THEN q ELSE Append(q, neigh2[k]), neigh2, k + 1)

\* palette = opts.palette ?? [the default eight colours]
paletteOf(o) == IF o.palette = NoPalette THEN DefaultPalette ELSE o.palette

\* paletteColor indexing the palette by the rank counted from 1.
paletteColor_fromOne(palette, ci) == palette[((ci + 1) % Len(palette)) + 1]

\* palette[ci % palette.length], ci counted from 0
paletteColor(palette, ci) == palette[(ci % Len(palette)) + 1]

\* The ClusterData built for the cluster of rank ci (from 0) with members idxs.
\* cluster_planes holds references (indices) to the caller's objects.
mkCluster(idxs, ci) ==
  LET color == paletteColor(paletteOf(opts), ci)
      mean  == meanPoleVectorsToPlane([k \in 1..Len(idxs) |-> vecs[idxs[k]]])
  IN  [cluster_planes |-> idxs,
       centroid_plane |-> [dipAngle |-> mean.dipAngle, dipDirection |-> mean.dipDirection,
                           color |-> color],
       color |-> color,
       name |-> ci + 1]

\* dbscanOutliers with label[i] <= 0.
dbscanOutliers_leqZero(lab) == SelectSeq(Indices(Len(lab)), LAMBDA j : lab[j] <= 0)

\* idxLists.map((idxs, ci) => ClusterData), as a sequence of the first k clusters
RECURSIVE mapClusters(_, _)
mapClusters(idxLists, k) ==
  IF k = 0 THEN <<>>
  ELSE Append(mapClusters(idxLists, k - 1), mkCluster(idxLists[k], k - 1))

\* planes.filter((_, i) => label[i] < 0), as references to the caller's objects
dbscanOutliers(lab) == SelectSeq(Indices(Len(lab)), LAMBDA j : lab[j] < 0)

\* dbscanPlanes(planes, o): entry, with the early return on an empty input.
CallDbscan(o) ==
  /\ pc = "idle"
  /\ MayCall("dbscanPlanes", o)
  /\ op' = "dbscanPlanes"
  /\ opts' = o
  /\ IF n = 0
       THEN /\ result' = [returned |-> TRUE, threw |-> FALSE, clusters |-> <<>>, outliers |-> <<>>]
            /\ pc' = "done"
            /\ UNCHANGED <<i, dbscanVars>>
       ELSE /\ visited' = freshVisited(n)
            /\ label' = freshLabel(n)
            /\ clustersIdx' = <<>>
            /\ i' = 1
            /\ pc' = "dbscan"
            /\ UNCHANGED <<queue, qi, result>>
  /\ UNCHANGED <<netVars, planes, opticsVars, prev, calls>>

\* Outer loop: if (visited[i]) continue
DbscanSkip ==
  /\ pc = "dbscan" /\ i <= n
  /\ visited[i]
  /\ i' = i + 1
  /\ UNCHANGED <<netVars, planes, pc, op, opts, dbscanVars, opticsVars, result, prev, calls>>

\* Outer loop: fewer than minPts neighbours, label[i] = -2
DbscanNoise ==
  /\ pc = "dbscan" /\ i <= n
  /\ ~visited[i]
  /\ Len(neighbors(i, epsOf(opts))) < minPtsOf(opts)
  /\ visited' = [visited EXCEPT ![i] = TRUE]
  /\ label' = [label EXCEPT ![i] = 0 - 2]
  /\ i' = i + 1
  /\ UNCHANGED <<netVars, planes, pc, op, opts, clustersIdx, queue, qi, opticsVars, result, prev, calls>>

\* Outer loop: a core sample opens a cluster and seeds the queue
DbscanSeed ==
  /\ pc = "dbscan" /\ i <= n
  /\ ~visited[i]
  /\ Len(neighbors(i, epsOf(opts))) >= minPtsOf(opts)
  /\ visited' = [visited EXCEPT ![i] = TRUE]
  /\ clustersIdx' = Append(clustersIdx, <<>>)
  /\ queue' = neighbors(i, epsOf(opts))
  /\ qi' = 1
  /\ pc' = "expand"
  /\ UNCHANGED <<netVars, planes, op, opts, i, label, opticsVars, result, prev, calls>>

\* DbscanExpand that leaves a sample labelled noise out of the cluster.
DbscanExpand_noiseFinal ==
  /\ pc = "expand" /\ qi <= Len(queue)
  /\ LET q      == queue[qi]
         cid    == Len(clustersIdx) - 1
         neigh2 == neighbors(q, epsOf(opts))
     IN  /\ visited' = [visited EXCEPT ![q] = TRUE]
         /\ queue' = IF ~visited[q] /\ Len(neigh2) >= minPtsOf(opts)
                       THEN pushNew(queue, neigh2, 1) ELSE queue
         /\ IF label[q] = 0 - 1
              THEN /\ label' = [label EXCEPT ![q] = cid]
                   /\ clustersIdx' = [clustersIdx EXCEPT ![cid + 1] = Append(@, q)]
              ELSE UNCHANGED <<label, clustersIdx>>
  /\ qi' = qi + 1
  /\ UNCHANGED <<netVars, planes, pc, op, opts, i, opticsVars, result, prev, calls>>

\* DbscanExpand that adds a noise sample to the cluster without relabelling it.
DbscanExpand_keepNoise ==
  /\ pc = "expand" /\ qi <= Len(queue)
  /\ LET q      == queue[qi]
         cid    == Len(clustersIdx) - 1
         neigh2 == neighbors(q, epsOf(opts))
     IN  /\ visited' = [visited EXCEPT ![q] = TRUE]
         /\ queue' = IF ~visited[q] /\ Len(neigh2) >= minPtsOf(opts)
                       THEN pushNew(queue, neigh2, 1) ELSE queue
         /\ IF label[q] = 0 - 1 \/ label[q] = 0 - 2
              THEN /\ label' = IF label[q] = 0 - 1 THEN [label EXCEPT ![q] = cid] ELSE label
                   /\ clustersIdx' = [clustersIdx EXCEPT ![cid + 1] = Append(@, q)]
              ELSE UNCHANGED <<label, clustersIdx>>
  /\ qi' = qi + 1
  /\ UNCHANGED <<netVars, planes, pc, op, opts, i, opticsVars, result, prev, calls>>

\* Inner loop: one iteration over queue[qi] for the cluster cid
DbscanExpand ==
  /\ pc = "expand" /\ qi <= Len(queue)
  /\ LET q      == queue[qi]
         cid    == Len(clustersIdx) - 1
         neigh2 == neighbors(q, epsOf(opts))
     IN  /\ visited' = [visited EXCEPT ![q] = TRUE]
         /\ queue' = IF ~visited[q] /\ Len(neigh2) >= minPtsOf(opts)
                       THEN pushNew(queue, neigh2, 1) ELSE queue
         /\ IF label[q] = 0 - 1 \/ label[q] = 0 - 2
              THEN /\ label' = [label EXCEPT ![q] = cid]
                   /\ clustersIdx' = [clustersIdx EXCEPT ![cid + 1] = Append(@, q)]
              ELSE UNCHANGED <<label, clustersIdx>>
  /\ qi' = qi + 1
  /\ UNCHANGED <<netVars, planes, pc, op, opts, i, opticsVars, result, prev, calls>>

\* DbscanExpandEnd that starts the queue again instead of leaving the loop.
DbscanExpandEnd_restart ==
  /\ pc = "expand" /\ qi > Len(queue)
  /\ qi' = 1
  /\ UNCHANGED <<netVars, planes, pc, op, opts, i, visited, label, clustersIdx, queue, opticsVars,
                 result, prev, calls>>

\* Inner loop exhausted: back to the outer loop
DbscanExpandEnd ==
  /\ pc = "expand" /\ qi > Len(queue)
  /\ pc' = "dbscan"
  /\ i' = i + 1
  /\ UNCHANGED <<netVars, planes, op, opts, dbscanVars, opticsVars, result, prev, calls>>

\* After the outer loop: build the ClusterData list and the outliers
DbscanReturn ==
  /\ pc = "dbscan" /\ i > n
  /\ result' = [returned |-> TRUE, threw |-> FALSE,
                clusters |-> mapClusters(clustersIdx, Len(clustersIdx)),
                outliers |-> dbscanOutliers(label)]
  /\ pc' = "done"
  /\ UNCHANGED <<netVars, planes, op, opts, i, dbscanVars, opticsVars, prev, calls>>

\* ------------------------------------------------------------- opticsOrder

\* epsMax = (opts.epsMaxDeg ?? Infinity), kept in degrees
epsMaxOf(o) == Dflt(o.epsMaxDeg, Infinity)

\* minPts = opts.minPts ?? 10
opticsMinPtsOf(o) == Dflt(o.minPts, 10)

\* new Array<number>(n).fill(v)
freshArray(k, v) == [j \in 1..k |-> v]

\* for (j...) if (d[j] <= epsMax) neigh.push(j)
opticsNeigh(p, epsMax) == SelectSeq(Indices(n), LAMBDA j : dist(p, j) <= epsMax)

\* neighbors.map(j => dists[j]).sort((a, b) => a - b)
withinSorted(p, neigh) ==
  SortSeq([k \in 1..Len(neigh) |-> dist(p, neigh[k])], LAMBDA a, b : a < b)

\* cd = within.length >= k ? within[k-1] : Infinity; within[k-1] is undefined
\* for k < 1
coreDistanceOf(p, neigh, k) ==
  LET within == withinSorted(p, neigh)
  IN  IF Len(within) >= k
        THEN (IF k >= 1 THEN within[k] ELSE Undefined)
        ELSE Infinity

\* updateReach without the state[o] === UNPROC test.
updateReach_anyState(p, neigh, k, st, reach) ==
  LET cd == coreDistanceOf(p, neigh, k)
  IN  IF ~isFinite(cd) THEN reach
      ELSE [o \in 1..n |->
              IF Includes(neigh, o) /\ Max(cd, dist(p, o)) < reach[o]
                THEN Max(cd, dist(p, o)) ELSE reach[o]]

\* updateReach without the newReach < reachability[o] test.
updateReach_overwrite(p, neigh, k, st, reach) ==
  LET cd == coreDistanceOf(p, neigh, k)
  IN  IF ~isFinite(cd) THEN reach
      ELSE [o \in 1..n |->
              IF Includes(neigh, o) /\ st[o] = UNPROC THEN Max(cd, dist(p, o)) ELSE reach[o]]

\* update(p, neighbors, dists): the reachability array after the update, given
\* the processing states st (p already PROC)
updateReach(p, neigh, k, st, reach) ==
  LET cd == coreDistanceOf(p, neigh, k)
  IN  IF ~isFinite(cd) THEN reach
      ELSE [o \in 1..n |->
              IF Includes(neigh, o) /\ st[o] = UNPROC /\ Max(cd, dist(p, o)) < reach[o]
                THEN Max(cd, dist(p, o)) ELSE reach[o]]

\* The scan for the unprocessed sample of smallest reachability, strictly
\* below Infinity, first index on ties; -1 when there is none.
RECURSIVE bestFrom(_, _, _, _, _)
bestFrom(j, best, bestVal, st, reach) ==
  IF j > Len(st) THEN best
  ELSE IF st[j] = UNPROC /\ reach[j] < bestVal
         THEN bestFrom(j + 1, j, reach[j], st, reach)
         ELSE bestFrom(j + 1, best, bestVal, st, reach)

\* pickBest taking the first unprocessed sample that has been reached at all.
pickBest_firstReached(st, reach) ==
  bestFrom(1, 0 - 1, Infinity, st, [j \in 1..Len(reach) |-> IF reach[j] < Infinity THEN 0 ELSE reach[j]])

pickBest(st, reach) == bestFrom(1, 0 - 1, Infinity, st, reach)

\* Process that returns before order.push(p) when the core distance is not finite.
Process_pushIfCore(p) ==
  LET neigh == opticsNeigh(p, epsMaxOf(opts))
      st    == [state EXCEPT ![p] = PROC]
      cd    == coreDistanceOf(p, neigh, opticsMinPtsOf(opts))
  IN  /\ state' = st
      /\ order' = IF isFinite(cd) THEN Append(order, p) ELSE order
      /\ coreDist' = [coreDist EXCEPT ![p] = cd]
      /\ reachability' = updateReach(p, neigh, opticsMinPtsOf(opts), st, reachability)

\* state[p] = PROC; order.push(p); update(p, neigh, d)
Process(p) ==
  LET neigh == opticsNeigh(p, epsMaxOf(opts))
      st    == [state EXCEPT ![p] = PROC]
  IN  /\ state' = st
      /\ order' = Append(order, p)
      /\ coreDist' = [coreDist EXCEPT ![p] = coreDistanceOf(p, neigh, opticsMinPtsOf(opts))]
      /\ reachability' = updateReach(p, neigh, opticsMinPtsOf(opts), st, reachability)

\* opticsClusterPlanes(planes, o): entry into opticsOrder(planes, o)
CallOptics(o) ==
  /\ pc = "idle"
  /\ MayCall("opticsClusterPlanes", o)
  /\ op' = "opticsClusterPlanes"
  /\ opts' = o
  /\ state' = freshArray(n, UNPROC)
  /\ reachability' = freshArray(n, Infinity)
  /\ coreDist' = freshArray(n, Infinity)
  /\ order' = <<>>
  /\ i' = 1
  /\ pc' = "optics"
  /\ UNCHANGED <<netVars, planes, dbscanVars, result, prev, calls>>

\* Outer loop: if (state[i] !== UNPROC) continue
OpticsSkip ==
  /\ pc = "optics" /\ i <= n
  /\ state[i] # UNPROC
  /\ i' = i + 1
  /\ UNCHANGED <<netVars, planes, pc, op, opts, dbscanVars, opticsVars, result, prev, calls>>

\* Outer loop: process the first unprocessed sample in input order
OpticsStart ==
  /\ pc = "optics" /\ i <= n
  /\ state[i] = UNPROC
  /\ Process(i)
  /\ pc' = "seeds"
  /\ UNCHANGED <<netVars, planes, op, opts, i, dbscanVars, result, prev, calls>>

\* Inner loop: process the unprocessed sample of smallest reachability
OpticsNext ==
  /\ pc = "seeds"
  /\ pickBest(state, reachability) >= 1
  /\ Process(pickBest(state, reachability))
  /\ UNCHANGED <<netVars, planes, pc, op, opts, i, dbscanVars, result, prev, calls>>

\* Inner loop: if (best < 0) break
OpticsBreak ==
  /\ pc = "seeds"
  /\ pickBest(state, reachability) < 1
  /\ pc' = "optics"
  /\ i' = i + 1
  /\ UNCHANGED <<netVars, planes, op, opts, dbscanVars, opticsVars, result, prev, calls>>

\* opticsOrder returns { order, coreDistance, reachability }
OpticsOrdered ==
  /\ pc = "optics" /\ i > n
  /\ pc' = "ordered"
  /\ UNCHANGED <<netVars, planes, op, opts, i, dbscanVars, opticsVars, result, prev, calls>>

\* ----------------------------------------------- extractClustersFromOPTICS

\* q = opts.quantile ?? 0.75, in percent
quantileOf(o) == Dflt(o.quantile, 75)

\* minSizeOf with the size test one too low.
minSizeOf_offByOne(o) == Dflt(o.minClusterSize, 10) - 1

\* minSize = opts.minClusterSize ?? 10
minSizeOf(o) == Dflt(o.minClusterSize, 10)

\* a <= b on JavaScript numbers: false when either side is undefined
Leq(a, b) == a # Undefined /\ b # Undefined /\ a <= b

\* [...reach.filter(v => isFinite(v))].sort((a, b) => a - b)
sortedFinite(reach) == SortSeq(SelectSeq(reach, isFinite), LAMBDA a, b : a < b)

\* threshold without the test for an empty list of finite values.
threshold_noGuard(reach, q) ==
  LET sorted == sortedFinite(reach)
      k      == (Len(sorted) * q) \div 100
  IN  IF k >= 0 /\ k < Len(sorted) THEN sorted[k + 1] ELSE Undefined

\* t = sorted.length ? sorted[Math.floor(sorted.length * q)] : Infinity
threshold(reach, q) ==
  LET sorted == sortedFinite(reach)
      k      == (Len(sorted) * q) \div 100
  IN  IF Len(sorted) = 0 THEN Infinity
      ELSE IF k >= 0 /\ k < Len(sorted) THEN sorted[k + 1] ELSE Undefined

\* The walk over order[k..], carrying clusters, outliers and the running segment
RECURSIVE walk(_, _, _, _, _, _, _, _)
walk(k, ord, reach, t, minSize, clusters, outliers, current) ==
  IF k > Len(ord)
    THEN IF Len(current) >= minSize
           THEN [clusters |-> Append(clusters, current), outliers |-> outliers]
           ELSE [clusters |-> clusters, outliers |-> outliers \o current]
    ELSE LET idx == ord[k]
             r   == reach[idx]
         IN  IF Leq(r, t)
               THEN walk(k + 1, ord, reach, t, minSize, clusters, outliers, Append(current, idx))
               ELSE IF Len(current) >= minSize
                      THEN walk(k + 1, ord, reach, t, minSize, Append(clusters, current),
                                Append(outliers, idx), <<>>)
                      ELSE walk(k + 1, ord, reach, t, minSize, clusters,
                                Append(outliers \o current, idx), <<>>)

extractClustersFromOPTICS(ord, reach, o) ==
  walk(1, ord, reach, threshold(reach, quantileOf(o)), minSizeOf(o), <<>>, <<>>, <<>>)

\* ----------------------------------------------------- opticsClusterPlanes

\* opticsOutliers that leaves out the samples that broke a segment.
opticsOutliers_noBreakers(extracted) ==
  SelectSeq(extracted.outliers,
            LAMBDA j : Leq(reachability[j], threshold(reachability, quantileOf(opts))))

\* extracted.outliers.map(i => planes[i]), as references to the caller's objects
opticsOutliers(extracted) == extracted.outliers

\* After opticsOrder: extraction, centroids and colours, outliers
OpticsReturn ==
  /\ pc = "ordered"
  /\ LET extracted == extractClustersFromOPTICS(order, reachability, opts)
     IN  result' = [returned |-> TRUE, threw |-> FALSE,
                    clusters |-> mapClusters(extracted.clusters, Len(extracted.clusters)),
                    outliers |-> opticsOutliers(extracted)]
  /\ pc' = "done"
  /\ UNCHANGED <<netVars, planes, op, opts, i, dbscanVars, opticsVars, prev, calls>>

\* ------------------------------------------------------------ the caller

\* The caller receives the result; the call's locals are dead from here on.
Return ==
  /\ pc = "done"
  /\ prev' = [op |-> op, opts |-> opts, result |-> result]
  /\ calls' = calls + 1
  /\ pc' = "idle"
  /\ result' = NoResult
  /\ UNCHANGED <<netVars, planes, op, opts, i, dbscanVars, opticsVars>>

\* ---------------------------------------------------------------- Stereonet

\* Arguments of the addPlane / addLine calls: orientations inside the ranges,
\* on their boundaries, and outside them.
NetOrients ==
  {<<30, 110>>, <<90, 0>>, <<30, 360>>, <<0 - 1, 110>>, <<91, 110>>, <<30, 0 - 1>>, <<30, 361>>}

\* IDs passed to the remove calls and to the cluster mutators.
NetIds == 0..2

\* The caller's cluster_planes arrays: two array objects and their contents.
ArrIds == {1, 2}
CallerArrays ==
  [a \in ArrIds |-> IF a = 1 THEN <<mkPlane(30, 110), mkPlane(40, 110)>> ELSE <<mkPlane(60, 110)>>]

\* A ClusterData without centroid_plane, and the centroids callers supply.
NoCentroid == [dipAngle |-> Undefined, dipDirection |-> Undefined]
SuppliedCentroids == {[dipAngle |-> 45, dipDirection |-> 220]}

\* ClusterData objects passed to addCluster; cluster_planes is a reference.
ClusterInputs ==
  {[cluster_planes |-> a, centroid_plane |-> c] :
     a \in ArrIds, c \in SuppliedCentroids \cup {NoCentroid}}

\* Planes passed to addClusterPlane and indices passed to removeClusterPlane.
AddedPlanes == {mkPlane(60, 110)}
PlaneIndexes == {0 - 1, 0, 1}

\* The stereonet methods leave the clustering call alone.
clusteringVars == <<planes, pc, op, opts, i, dbscanVars, opticsVars, result, prev, calls>>

\* map.keys(), map.has(k), map.get(k)
MapKeys(m) == {m[j].id : j \in 1..Len(m)}
MapHas(m, k) == k \in MapKeys(m)
MapGet(m, k) == m[CHOOSE j \in 1..Len(m) : m[j].id = k]

\* map.set(k, e): an existing key keeps its place and takes the new value
MapSet(m, e) ==
  IF MapHas(m, e.id) THEN [j \in 1..Len(m) |-> IF m[j].id = e.id THEN e ELSE m[j]]
  ELSE Append(m, e)

\* map.delete(k)
MapDelete(m, k) == SelectSeq(m, LAMBDA e : e.id # k)

\* _validateDipDirection(dipAngle, dipDirection)
validateDipDirection(dipAngle, dipDirection) ==
  IF dipAngle < 0 \/ dipAngle > 90 THEN FALSE
  ELSE IF dipDirection < 0 \/ dipDirection > 360 THEN FALSE
  ELSE TRUE

\* addPlane(dipAngle, dipDirection): id = this.planes.size
AddPlane(dipAngle, dipDirection) ==
  /\ netCount < MaxNetOps
  /\ netCount' = netCount + 1
  /\ IF validateDipDirection(dipAngle, dipDirection)
       THEN /\ netPlanes' = MapSet(netPlanes, [id |-> Len(netPlanes), dipAngle |-> dipAngle,
                                               dipDirection |-> dipDirection, color |-> "null"])
            /\ netRet' = [op |-> "addPlane", args |-> <<dipAngle, dipDirection>>,
                          id |-> Len(netPlanes)]
       ELSE /\ netPlanes' = netPlanes
            /\ netRet' = [op |-> "addPlane", args |-> <<dipAngle, dipDirection>>,
                          id |-> Undefined]
  /\ UNCHANGED <<netLines, netClusters, arrays, clusteringVars>>

\* removePlane(planeId)
RemovePlane(planeId) ==
  /\ netCount < MaxNetOps
  /\ netCount' = netCount + 1
  /\ netPlanes' = IF MapHas(netPlanes, planeId) THEN MapDelete(netPlanes, planeId) ELSE netPlanes
  /\ netRet' = [op |-> "removePlane", args |-> <<planeId>>, id |-> Undefined]
  /\ UNCHANGED <<netLines, netClusters, arrays, clusteringVars>>

\* addLine(dipAngle, dipDirection): id = this.lines.size
AddLine(dipAngle, dipDirection) ==
  /\ netCount < MaxNetOps
  /\ netCount' = netCount + 1
  /\ IF validateDipDirection(dipAngle, dipDirection)
       THEN /\ netLines' = MapSet(netLines, [id |-> Len(netLines), dipAngle |-> dipAngle,
                                             dipDirection |-> dipDirection, color |-> "null"])
            /\ netRet' = [op |-> "addLine", args |-> <<dipAngle, dipDirection>>,
                          id |-> Len(netLines)]
       ELSE /\ netLines' = netLines
            /\ netRet' = [op |-> "addLine", args |-> <<dipAngle, dipDirection>>,
                          id |-> Undefined]
  /\ UNCHANGED <<netPlanes, netClusters, arrays, clusteringVars>>

\* removeLine(lineId)
RemoveLine(lineId) ==
  /\ netCount < MaxNetOps
  /\ netCount' = netCount + 1
  /\ netLines' = IF MapHas(netLines, lineId) THEN MapDelete(netLines, lineId) ELSE netLines
  /\ netRet' = [op |-> "removeLine", args |-> <<lineId>>, id |-> Undefined]
  /\ UNCHANGED <<netPlanes, netClusters, arrays, clusteringVars>>

\* _meanPoleVectorsToPlane(cluster_planes.map(p => _planeToPoleVector(...)))
meanOfArray(arr) ==
  meanPoleVectorsToPlane([k \in 1..Len(arr) |-> PoleTable[<<arr[k].dipAngle, arr[k].dipDirection>>]])

\* addCluster(cluster): id = this.clusters.size; the centroid is the one
\* provided or the mean of the members; data.cluster_planes is the caller's
\* array itself.
AddCluster(cluster) ==
  /\ netCount < MaxNetOps
  /\ netCount' = netCount + 1
  /\ LET centroid == IF cluster.centroid_plane = NoCentroid
                       THEN meanOfArray(arrays[cluster.cluster_planes])
                       ELSE cluster.centroid_plane
     IN  netClusters' = MapSet(netClusters, [id |-> Len(netClusters), color |-> "#3cb371",
                                             cluster_planes |-> cluster.cluster_planes,
                                             centroid_plane |-> centroid])
  /\ netRet' = [op |-> "addCluster", args |-> <<cluster.cluster_planes>>, id |-> Len(netClusters)]
  /\ UNCHANGED <<netPlanes, netLines, arrays, clusteringVars>>

\* removeCluster(clusterId)
RemoveCluster(clusterId) ==
  /\ netCount < MaxNetOps
  /\ netCount' = netCount + 1
  /\ netClusters' = IF MapHas(netClusters, clusterId) THEN MapDelete(netClusters, clusterId)
                    ELSE netClusters
  /\ netRet' = [op |-> "removeCluster", args |-> <<clusterId>>, id |-> Undefined]
  /\ UNCHANGED <<netPlanes, netLines, arrays, clusteringVars>>

\* _rerenderClusterCentroid(clusterId): the mean of the record's current members
rerenderClusterCentroid(clusters, arrs, clusterId) ==
  [j \in 1..Len(clusters) |->
     IF clusters[j].id = clusterId
       THEN [clusters[j] EXCEPT !.centroid_plane = meanOfArray(arrs[clusters[j].cluster_planes])]
       ELSE clusters[j]]

\* arr.splice(start, 1)
splice(arr, start) ==
  LET from == IF start < 0 THEN Max(Len(arr) + start, 0) ELSE Min(start, Len(arr))
  IN  IF from < Len(arr) THEN SubSeq(arr, 1, from) \o SubSeq(arr, from + 2, Len(arr)) ELSE arr

\* addClusterPlane(clusterId, plane): push, then recompute the centroid
AddClusterPlane(clusterId, plane) ==
  /\ netCount < MaxNetOps
  /\ netCount' = netCount + 1
  /\ IF MapHas(netClusters, clusterId)
       THEN /\ arrays' = [arrays EXCEPT ![MapGet(netClusters, clusterId).cluster_planes] =
                                          Append(@, plane)]
            /\ netClusters' = rerenderClusterCentroid(netClusters, arrays', clusterId)
       ELSE UNCHANGED <<arrays, netClusters>>
  /\ netRet' = [op |-> "addClusterPlane", args |-> <<clusterId>>, id |-> Undefined]
  /\ UNCHANGED <<netPlanes, netLines, clusteringVars>>

\* removeClusterPlane(clusterId, planeIndex): splice, then recompute the centroid
RemoveClusterPlane(clusterId, planeIndex) ==
  /\ netCount < MaxNetOps
  /\ netCount' = netCount + 1
  /\ IF MapHas(netClusters, clusterId)
       THEN /\ arrays' = [arrays EXCEPT ![MapGet(netClusters, clusterId).cluster_planes] =
                                          splice(@, planeIndex)]
            /\ netClusters' = rerenderClusterCentroid(netClusters, arrays', clusterId)
       ELSE UNCHANGED <<arrays, netClusters>>
  /\ netRet' = [op |-> "removeClusterPlane", args |-> <<clusterId, planeIndex>>, id |-> Undefined]
  /\ UNCHANGED <<netPlanes, netLines, clusteringVars>>

\* this.addPlane(p.dipAngle, p.dipDirection, p.color ?? undefined) on the
\* registry m (addLine does the same on the lines)
addTo(m, e) ==
  IF validateDipDirection(e.dipAngle, e.dipDirection)
    THEN MapSet(m, [id |-> Len(m), dipAngle |-> e.dipAngle, dipDirection |-> e.dipDirection,
                    color |-> e.color])
    ELSE m

\* for (const p of currentPlanes) this.addPlane(...), over the first k values
\* of the cleared registry
RECURSIVE readd(_, _)
readd(vals, k) == IF k = 0 THEN <<>> ELSE addTo(readd(vals, k - 1), vals[k])

\* this.addCluster(c) with c = the data of a former record: its centroid and
\* colour are provided, its cluster_planes array is kept
addClusterTo(m, e) ==
  MapSet(m, [id |-> Len(m), color |-> e.color, cluster_planes |-> e.cluster_planes,
             centroid_plane |-> e.centroid_plane])

\* for (const c of currentClusters) this.addCluster(c), over the first k values
RECURSIVE readdClusters(_, _)
readdClusters(vals, k) ==
  IF k = 0 THEN <<>> ELSE addClusterTo(readdClusters(vals, k - 1), vals[k])

\* _resize(): the window resize listener; the registries are cleared and
\* every former value is added again, in insertion order
Resize ==
  /\ netPlanes' = readd(netPlanes, Len(netPlanes))
  /\ netLines' = readd(netLines, Len(netLines))
  /\ netClusters' = readdClusters(netClusters, Len(netClusters))
  /\ netRet' = [op |-> "resize", args |-> <<>>, id |-> Undefined]
  /\ UNCHANGED <<netCount, arrays, clusteringVars>>

\* new Stereonet(...): empty registries; the caller holds its arrays
InitNetLocals ==
  /\ netPlanes = <<>>
  /\ netLines = <<>>
  /\ netClusters = <<>>
  /\ arrays = CallerArrays
  /\ netRet = [op |-> "none", args |-> <<>>, id |-> Undefined]
  /\ netCount = 0

InitLocals ==
  /\ InitNetLocals
  /\ pc = "idle"
  /\ op = "none"
  /\ opts = NoOpts
  /\ i = 1
  /\ visited = <<>>
  /\ label = <<>>
  /\ clustersIdx = <<>>
  /\ queue = <<>>
  /\ qi = 1
  /\ state = <<>>
  /\ reachability = <<>>
  /\ coreDist = <<>>
  /\ order = <<>>
  /\ result = NoResult
  /\ prev = NoCall
  /\ calls = 0

Init ==
  /\ planes \in Populations
  /\ InitLocals

Next ==
  \/ \E o \in DbscanOpts : CallDbscan(o)
  \/ DbscanSkip
  \/ DbscanNoise
  \/ DbscanSeed
  \/ DbscanExpand
  \/ DbscanExpandEnd
  \/ DbscanReturn
  \/ \E o \in OpticsOpts : CallOptics(o)
  \/ OpticsSkip
  \/ OpticsStart
  \/ OpticsNext
  \/ OpticsBreak
  \/ OpticsOrdered
  \/ OpticsReturn
  \/ Return

Spec == Init /\ [][Next]_vars

\* The body of dbscanPlanes after entry: one step of its loops or its return.
DbscanStep ==
  \/ DbscanSkip
  \/ DbscanNoise
  \/ DbscanSeed
  \/ DbscanExpand
  \/ DbscanExpandEnd
  \/ DbscanReturn

NextDbscan ==
  \/ \E o \in DbscanOpts : CallDbscan(o)
  \/ DbscanStep
  \/ Return

\* dbscanPlanes alone.  The code is synchronous and single-threaded: once
\* called, the body keeps taking steps until it returns.
SpecDbscanLive == Init /\ [][NextDbscan]_vars /\ WF_vars(DbscanStep)

\* dbscanPlanes with in-range options on great-circle populations.
InitLine ==
  /\ planes \in LinePopulations
  /\ InitLocals

NextLine ==
  \/ \E o \in LineDbscanOpts : CallDbscan(o)
  \/ DbscanSkip
  \/ DbscanNoise
  \/ DbscanSeed
  \/ DbscanExpand
  \/ DbscanExpandEnd
  \/ DbscanReturn
  \/ Return

SpecLine == InitLine /\ [][NextLine]_vars

\* dbscanPlanes on populations drawn from the whole hemisphere.
InitSphere ==
  /\ planes \in SpherePopulations
  /\ InitLocals

NextSphere ==
  \/ \E o \in SphereDbscanOpts : CallDbscan(o)
  \/ DbscanSkip
  \/ DbscanNoise
  \/ DbscanSeed
  \/ DbscanExpand
  \/ DbscanExpandEnd
  \/ DbscanReturn
  \/ Return

SpecSphere == InitSphere /\ [][NextSphere]_vars

\* opticsClusterPlanes on the two-group populations.
InitTwoGroups ==
  /\ planes \in TwoGroupPopulations
  /\ InitLocals

NextTwoGroups ==
  \/ \E o \in TwoGroupOpts : CallOptics(o)
  \/ OpticsSkip
  \/ OpticsStart
  \/ OpticsNext
  \/ OpticsBreak
  \/ OpticsOrdered
  \/ OpticsReturn
  \/ Return

SpecTwoGroups == InitTwoGroups /\ [][NextTwoGroups]_vars

\* opticsClusterPlanes on the two-group populations, over several
\* quantiles and minimum cluster sizes.
NextExtract ==
  \/ \E o \in ExtractOpts : CallOptics(o)
  \/ OpticsSkip
  \/ OpticsStart
  \/ OpticsNext
  \/ OpticsBreak
  \/ OpticsOrdered
  \/ OpticsReturn
  \/ Return

SpecExtract == InitTwoGroups /\ [][NextExtract]_vars

\* A Stereonet and the calls made on it.
InitNet ==
  /\ planes = <<>>
  /\ InitLocals

NextNet ==
  \/ \E o \in NetOrients : AddPlane(o[1], o[2])
  \/ \E k \in NetIds : RemovePlane(k)
  \/ \E o \in NetOrients : AddLine(o[1], o[2])
  \/ \E k \in NetIds : RemoveLine(k)
  \/ \E c \in ClusterInputs : AddCluster(c)
  \/ \E k \in NetIds : RemoveCluster(k)
  \/ \E k \in NetIds, p \in AddedPlanes : AddClusterPlane(k, p)
  \/ \E k \in NetIds, x \in PlaneIndexes : RemoveClusterPlane(k, x)

SpecNet == InitNet /\ [][NextNet]_vars

\* The same calls with window resize events between them.
NextResize ==
  \/ NextNet
  \/ Resize

SpecResize == InitNet /\ [][NextResize]_vars

\* ------------------------------------------------------------- properties

\* Number of positions of seq holding v
Occ(seq, v) == Cardinality({j \in 1..Len(seq) : seq[j] = v})

\* Number of places of the returned result that hold the input index v
Places(v) ==
  LET inClusters == {<<c, j>> \in (1..Len(result.clusters)) \X (1..n) :
                       /\ j <= Len(result.clusters[c].cluster_planes)
                       /\ result.clusters[c].cluster_planes[j] = v}
  IN  Cardinality(inClusters) + Occ(result.outliers, v)

\* The value dbscanPlanes has just returned
DbscanDone == pc = "done" /\ op = "dbscanPlanes"

\* The value opticsClusterPlanes has just returned
OpticsDone == pc = "done" /\ op = "opticsClusterPlanes"

\* Index sets
MembersOf(c) == {result.clusters[c].cluster_planes[j] : j \in 1..Len(result.clusters[c].cluster_planes)}
OutlierSet == {result.outliers[j] : j \in 1..Len(result.outliers)}
Clustered == UNION {MembersOf(c) : c \in 1..Len(result.clusters)}

\* seq lists indices in strictly increasing (input) order
Ascending(seq) == \A j \in 1..(Len(seq) - 1) : seq[j] < seq[j + 1]

\* C1: when dbscanPlanes returns, every input index is in exactly one place:
\* once in one cluster's member list, or once in the outlier list.
C1_Partition ==
  DbscanDone => \A v \in 1..n : Places(v) = 1

\* C1 witness: a returned result with a cluster of several members and an
\* outlier.
C1_Witness ==
  /\ DbscanDone
  /\ Len(result.outliers) >= 1
  /\ \E c \in 1..Len(result.clusters) : Cardinality(MembersOf(c)) >= 2

\* C2 as stated: every returned cluster has a member with at least minPts
\* members of the same cluster within epsDeg.
C2_CoreWithinCluster ==
  DbscanDone =>
    \A c \in 1..Len(result.clusters) :
      \E m \in MembersOf(c) :
        Cardinality({x \in MembersOf(c) : dist(m, x) <= Dflt(opts.epsDeg, 10)})
          >= Dflt(opts.minPts, 4)

\* C2 amended: every clustered sample's cluster has a member with at least
\* minPts samples of the input population within epsDeg.
C2_CoreWithinPopulation ==
  DbscanDone =>
    \A c \in 1..Len(result.clusters) :
      MembersOf(c) # {} =>
        \E m \in MembersOf(c) :
          Cardinality({x \in 1..n : dist(m, x) <= Dflt(opts.epsDeg, 10)})
            >= Dflt(opts.minPts, 4)

\* C2 witness: a returned cluster with fewer than minPts members, because a
\* neighbour of its core sample already belongs to an earlier cluster.
C2_Witness ==
  /\ DbscanDone
  /\ \E c \in 1..Len(result.clusters) :
       /\ MembersOf(c) # {}
       /\ Cardinality(MembersOf(c)) < Dflt(opts.minPts, 4)

\* C3: on an empty input both facades return, without error, no clusters and
\* no outliers, whatever the options.
C3_EmptyInput ==
  (pc = "done" /\ n = 0) =>
    /\ result.returned /\ ~result.threw
    /\ result.clusters = <<>>
    /\ result.outliers = <<>>

\* C4: a call with an out-of-range option value (a negative minPts) ends in an
\* error and returns no clusters/outliers result.
C4_FailFast ==
  (pc = "done" /\ opts.minPts # Undefined /\ opts.minPts < 0) =>
    result.threw /\ ~result.returned

\* C5: every cluster returned by either facade has at least one member.
C5_NonEmptyClusters ==
  pc = "done" =>
    \A c \in 1..Len(result.clusters) : Len(result.clusters[c].cluster_planes) >= 1

\* C6: when opticsOrder returns, order is a permutation of the input indices.
C6_OrderPermutation ==
  pc = "ordered" =>
    /\ Len(order) = n
    /\ \A v \in 1..n : Occ(order, v) = 1

\* C6 witness: an ordering of at least three samples that differs from the
\* input order.
C6_Witness ==
  /\ pc = "ordered"
  /\ n >= 3
  /\ \E k \in 1..Len(order) : order[k] # k

\* C7: after opticsOrder on a non-empty input the first sample of the
\* ordering has reachability +infinity.
C7_FirstUnreached ==
  (pc = "ordered" /\ n >= 1) => reachability[order[1]] = Infinity

\* C7 witness: an ordering whose first sample is within reach of a later core
\* sample, and whose other samples were reached.
C7_Witness ==
  /\ pc = "ordered"
  /\ n >= 2
  /\ \E v \in 2..n : /\ isFinite(coreDist[v])
                     /\ dist(v, order[1]) <= epsMaxOf(opts)
                     /\ isFinite(reachability[v])

\* C8: the outliers returned by opticsClusterPlanes are in input order.
C8_OpticsOutliersInputOrder ==
  OpticsDone => Ascending(result.outliers)

\* C9: the outliers returned by dbscanPlanes are exactly the samples in no
\* cluster, as the caller's own uncoloured objects, in input order.
C9_DbscanOutliers ==
  DbscanDone =>
    /\ OutlierSet = (1..n) \ Clustered
    /\ Ascending(result.outliers)
    /\ \A v \in OutlierSet : planes[v].color = "null"

\* C9 witness: a result with at least two outliers and a cluster.
C9_Witness ==
  /\ DbscanDone
  /\ Len(result.outliers) >= 2
  /\ Len(result.clusters) >= 1

\* C10: a facade called again on the same input with the same options returns
\* the same clusters in the same order and the same outliers.
C10_Deterministic ==
  (pc = "done" /\ prev.op = op /\ prev.opts = opts) => result = prev.result

\* C10 witness: a second call has returned a result with a cluster and an outlier.
C10_Witness ==
  /\ pc = "done"
  /\ calls >= 1
  /\ prev.op = op
  /\ Len(result.clusters) >= 1
  /\ Len(result.outliers) >= 1

\* The palette in use for the running call, read from the options as given
PaletteInUse == IF opts.palette = NoPalette THEN DefaultPalette ELSE opts.palette

C12_DbscanTerminates ==
  (op = "dbscanPlanes" /\ pc \in {"dbscan", "expand"})
    ~> (pc = "done" /\ result.returned /\ ~result.threw)

\* C12 witness: a call has returned a cluster that grew by expansion, two of
\* its members being farther apart than epsDeg.
C12_Witness ==
  /\ DbscanDone
  /\ result.returned
  /\ \E c \in 1..Len(result.clusters) :
       \E a \in MembersOf(c), b \in MembersOf(c) : dist(a, b) > epsOf(opts)

\* C13: while dbscanPlanes works on a population, the angular distance of
\* every two of its pole vectors (both with z >= 0) lies in [0, 90 degrees].
C13_DistanceWithinQuarterTurn ==
  (op = "dbscanPlanes" /\ pc \in {"dbscan", "expand", "done"})
    => \A a \in 1..n, b \in 1..n :
         /\ vecs[a].z >= 0 /\ vecs[b].z >= 0
         /\ dist(a, b) >= 0 /\ dist(a, b) <= 90

\* Every member of the returned cluster c has the orientation of its first member.
SameOrientation(c) ==
  \A j \in MembersOf(c) :
    /\ planes[j].dipAngle = planes[result.clusters[c].cluster_planes[1]].dipAngle
    /\ planes[j].dipDirection = planes[result.clusters[c].cluster_planes[1]].dipDirection

TightGroup(G) ==
  /\ Cardinality(G) >= minPtsOf(opts)
  /\ \A a \in G, b \in G : dist(a, b) <= epsOf(opts)
  /\ \A a \in (1..n) \ G : \A b \in (1..n) \ {a} : dist(a, b) > epsOf(opts)

\* C15: with minPts >= 2, on a population made of one tight group G and
\* isolated samples, dbscanPlanes returns exactly one cluster, its members
\* are exactly G, and every other sample is an outlier.
C15_OneTightGroup ==
  (DbscanDone /\ result.returned /\ minPtsOf(opts) >= 2)
    => \A G \in SUBSET (1..n) :
         TightGroup(G)
           => /\ Len(result.clusters) = 1
              /\ MembersOf(1) = G
              /\ Len(result.clusters[1].cluster_planes) = Cardinality(G)
              /\ OutlierSet = (1..n) \ G
              /\ Len(result.outliers) = n - Cardinality(G)

\* C15 witness: five tight samples and one distant sample, minPts = 3; the
\* returned cluster holds the five and the distant one is the outlier.
C15_Witness ==
  /\ DbscanDone
  /\ result.returned
  /\ minPtsOf(opts) = 3
  /\ n = 6
  /\ \E G \in SUBSET (1..n) :
       /\ Cardinality(G) = 5
       /\ TightGroup(G)
       /\ \E a \in G, b \in G : dist(a, b) > 0
       /\ MembersOf(1) = G
       /\ Len(result.outliers) = 1

\* The population is two groups (samples 1..10 and 11..20) with every
\* distance inside a group smaller than every distance between the groups.
TwoSeparatedGroups ==
  /\ n = 20
  /\ \A a \in 1..n, b \in 1..n, c \in 1..n, d \in 1..n :
       ((a <= 10) = (b <= 10) /\ (c <= 10) # (d <= 10)) => dist(a, b) < dist(c, d)

\* C16: opticsClusterPlanes with minPts = 5, quantile = 0.75, minClusterSize
\* = 8 and no epsMaxDeg, on two separated groups of 10, returns exactly two
\* clusters, each of at least 8 samples and of one group only, and at most
\* 4 outliers.
C16_TwoClusters ==
  (/\ OpticsDone /\ result.returned
   /\ TwoSeparatedGroups
   /\ opts.minPts = 5 /\ opts.quantile = 75 /\ opts.minClusterSize = 8
   /\ opts.epsMaxDeg = Undefined)
    => /\ Len(result.clusters) = 2
       /\ \A c \in 1..Len(result.clusters) :
            /\ Len(result.clusters[c].cluster_planes) >= 8
            /\ (\A j \in MembersOf(c) : j <= 10) \/ (\A j \in MembersOf(c) : j > 10)
       /\ Len(result.outliers) <= 4

\* No sample has a finite reachability.
NoFiniteReachability == \A j \in 1..n : ~isFinite(reachability[j])

\* C20: when no reachability is finite, the whole order is one segment: a
\* single cluster holding all samples in visiting order when there are at
\* least minClusterSize of them, otherwise no cluster and all samples as
\* outliers.
C20_NoFiniteReachability ==
  (OpticsDone /\ result.returned /\ NoFiniteReachability)
    => IF n >= minSizeOf(opts)
         THEN /\ Len(result.clusters) = 1
              /\ result.clusters[1].cluster_planes = order
              /\ result.outliers = <<>>
         ELSE /\ result.clusters = <<>>
              /\ result.outliers = order

\* C20 witness: three samples, none reachable from another, returned as one cluster.
C20_Witness ==
  /\ OpticsDone
  /\ result.returned
  /\ NoFiniteReachability
  /\ n = 3
  /\ Len(order) = 3
  /\ Len(result.clusters) = 1
  /\ result.clusters[1].cluster_planes = order
  /\ result.outliers = <<>>

\* A Stereonet call has just been made by this step.
NetCalled(name) == netCount' # netCount /\ netRet'.op = name

\* C17: the ID returned by addPlane, addLine or addCluster is not the ID of
\* an entry that was registered when the call was made.
C17_ReturnedIdIsFresh ==
  [][/\ (NetCalled("addPlane") /\ netRet'.id # Undefined)
          => ~MapHas(netPlanes, netRet'.id)
     /\ (NetCalled("addLine") /\ netRet'.id # Undefined)
          => ~MapHas(netLines, netRet'.id)
     /\ NetCalled("addCluster")
          => ~MapHas(netClusters, netRet'.id)]_vars

\* The documented ranges: dip in [0, 90] and dip direction in [0, 360).
InDocumentedRange(dipAngle, dipDirection) ==
  dipAngle >= 0 /\ dipAngle <= 90 /\ dipDirection >= 0 /\ dipDirection < 360

\* C18: addPlane and addLine called with an orientation outside the
\* documented ranges return no ID and leave both registries unchanged.
C18_InvalidDiscarded ==
  [][((NetCalled("addPlane") \/ NetCalled("addLine"))
        /\ ~InDocumentedRange(netRet'.args[1], netRet'.args[2]))
       => /\ netRet'.id = Undefined
          /\ netPlanes' = netPlanes
          /\ netLines' = netLines]_vars

\* C19: the centroid of every registered cluster is a centroid supplied by
\* the caller or the spherical mean of the cluster's current members.
C19_CentroidConsistent ==
  \A j \in 1..Len(netClusters) :
    \/ netClusters[j].centroid_plane \in SuppliedCentroids
    \/ netClusters[j].centroid_plane = meanOfArray(arrays[netClusters[j].cluster_planes])

\* The threshold extractClustersFromOPTICS uses on the returned ordering.
UsedThreshold == threshold(reachability, quantileOf(opts))

\* Samples with a finite reachability
FiniteReach == {j \in 1..n : isFinite(reachability[j])}

\* C21: when some reachability is finite and the quantile is in [0, 1], the
\* threshold is one of the finite reachability values and at least the
\* fraction q of the finite reachability values are <= it.
C21_ThresholdIsQuantile ==
  (/\ OpticsDone /\ result.returned
   /\ FiniteReach # {}
   /\ quantileOf(opts) >= 0 /\ quantileOf(opts) <= 100)
    => /\ \E j \in FiniteReach : reachability[j] = UsedThreshold
       /\ 100 * Cardinality({j \in FiniteReach : Leq(reachability[j], UsedThreshold)})
            >= quantileOf(opts) * Cardinality(FiniteReach)

\* C22: the sample a step of opticsOrder appends to order was unprocessed,
\* no unprocessed sample had a smaller reachability, and no unprocessed
\* sample of the same reachability (+infinity included) had a lower index.
C22_NextIsSmallestReachability ==
  [][(op = "opticsClusterPlanes" /\ Len(order') = Len(order) + 1)
       => LET p == order'[Len(order')]
          IN  /\ state[p] = UNPROC
              /\ \A j \in 1..n :
                   state[j] = UNPROC
                     => /\ reachability[p] <= reachability[j]
                        /\ reachability[j] = reachability[p] => p <= j]_vars

\* C22 witness: a sample was ordered before a sample of lower index, its
\* reachability being the smaller one.
C22_Witness ==
  /\ op = "opticsClusterPlanes"
  /\ pc = "seeds"
  /\ \E k \in 1..(Len(order) - 1) :
       /\ k + 1 = Len(order)
       /\ order[k + 1] > order[k]
       /\ \E j \in 1..n : /\ state[j] = UNPROC
                           /\ j < order[k + 1]
                           /\ isFinite(reachability[j])
                           /\ reachability[j] > reachability[order[k + 1]]

\* opticsOrder has returned its ordering for the call in progress.
OrderingDone == op = "opticsClusterPlanes" /\ pc \in {"ordered", "done"}

\* Samples within epsMax of p, p included.
WithinEpsMax(p) == {j \in 1..n : dist(p, j) <= epsMaxOf(opts)}

\* C23: after opticsOrder, coreDistance[p] is the minPts-th smallest distance
\* from p to the samples within epsMax of p, or +infinity when there are
\* fewer than minPts of them; every entry is a number >= 0 or +infinity.
C23_CoreDistance ==
  OrderingDone
    => \A p \in 1..n :
         /\ coreDist[p] >= 0
         /\ IF Cardinality(WithinEpsMax(p)) >= opticsMinPtsOf(opts)
              THEN /\ \E j \in WithinEpsMax(p) : dist(p, j) = coreDist[p]
                   /\ Cardinality({j \in WithinEpsMax(p) : dist(p, j) <= coreDist[p]})
                        >= opticsMinPtsOf(opts)
                   /\ Cardinality({j \in WithinEpsMax(p) : dist(p, j) < coreDist[p]})
                        < opticsMinPtsOf(opts)
              ELSE coreDist[p] = Infinity

\* Position of sample x in order
PosIn(x) == CHOOSE k \in 1..Len(order) : order[k] = x

\* The samples that can propagate a reachability to o: they precede o in
\* order, have a finite core distance and have o within epsMax.
Propagators(o) ==
  {p \in 1..n : /\ PosIn(p) < PosIn(o)
                /\ isFinite(coreDist[p])
                /\ dist(p, o) <= epsMaxOf(opts)}

\* Reachability of o is the smallest max(coreDistance[p], distance(p, o))
\* over its propagators, +infinity without any.
ReachabilityIsMinimum(o) ==
  IF Propagators(o) = {} THEN reachability[o] = Infinity
  ELSE /\ \E p \in Propagators(o) : reachability[o] = Max(coreDist[p], dist(p, o))
       /\ \A p \in Propagators(o) : reachability[o] <= Max(coreDist[p], dist(p, o))

\* C24: once opticsOrder has ordered every sample, each reachability is the
\* minimum over the sample's propagators (+infinity without any); and no
\* step of the ordering changes the reachability of a processed sample.
C24_Reachability ==
  [][/\ OrderingDone' => \A o \in 1..n : ReachabilityIsMinimum(o)'
     /\ (op = "opticsClusterPlanes" /\ pc \in {"optics", "seeds"})
          => \A o \in 1..n : state[o] = PROC => reachability'[o] = reachability[o]]_vars

\* C24 witness: a returned ordering in which a sample has two propagators
\* offering different values and holds the smaller one.
C24_Witness ==
  /\ OrderingDone
  /\ \E o \in 1..n : \E p \in Propagators(o), q \in Propagators(o) :
       /\ PosIn(p) < PosIn(q)
       /\ Max(coreDist[p], dist(p, o)) < Max(coreDist[q], dist(q, o))
       /\ reachability[o] = Max(coreDist[p], dist(p, o))

\* Sample j breaks the running segment: its reachability exceeds the threshold.
Exceeds(j) ==
  /\ reachability[j] # Undefined /\ UsedThreshold # Undefined
  /\ reachability[j] > UsedThreshold

\* C25: every sample whose reachability exceeds the threshold is in the
\* outlier list and in no cluster, also when the samples that follow it in
\* the order are kept as a cluster.
C25_BreakerIsOutlier ==
  (OpticsDone /\ result.returned)
    => \A j \in 1..n : Exceeds(j) => (j \in OutlierSet /\ j \notin Clustered)

\* C25 witness: a sample of finite reachability above the threshold is an
\* outlier and the sample right after it in the order opens a returned cluster.
C25_Witness ==
  /\ OpticsDone
  /\ result.returned
  /\ \E k \in 1..(Len(order) - 1) :
       /\ isFinite(reachability[order[k]])
       /\ Exceeds(order[k])
       /\ order[k] \in OutlierSet
       /\ \E c \in 1..Len(result.clusters) :
            /\ Len(result.clusters[c].cluster_planes) >= 1
            /\ result.clusters[c].cluster_planes[1] = order[k + 1]

\* Positions a..b of order are a maximal run of samples with reachability <= t.
MaximalRun(a, b) ==
  /\ \A k \in a..b : Leq(reachability[order[k]], UsedThreshold)
  /\ a = 1 \/ ~Leq(reachability[order[a - 1]], UsedThreshold)
  /\ b = Len(order) \/ ~Leq(reachability[order[b + 1]], UsedThreshold)

\* C26: every returned cluster is a maximal run of order, in order sequence,
\* of at least minClusterSize samples; the samples of every maximal run
\* shorter than minClusterSize are all outliers.
C26_ClustersAreMaximalRuns ==
  (OpticsDone /\ result.returned)
    => /\ \A c \in 1..Len(result.clusters) :
            /\ Len(result.clusters[c].cluster_planes) >= Dflt(opts.minClusterSize, 10)
            /\ \E a \in 1..(Len(order) + 1), b \in 0..Len(order) :
                 /\ a <= b + 1
                 /\ result.clusters[c].cluster_planes = SubSeq(order, a, b)
                 /\ MaximalRun(a, b)
       /\ \A a \in 1..Len(order), b \in 1..Len(order) :
            (a <= b /\ MaximalRun(a, b) /\ b - a + 1 < Dflt(opts.minClusterSize, 10))
              => \A k \in a..b : order[k] \in OutlierSet

\* C26 witness: one run of the order is returned as a cluster and a shorter
\* run of several samples is dumped into the outliers.
C26_Witness ==
  /\ OpticsDone
  /\ result.returned
  /\ Len(result.clusters) >= 1
  /\ \E a \in 1..Len(order), b \in 1..Len(order) :
       /\ a < b
       /\ MaximalRun(a, b)
       /\ b - a + 1 < Dflt(opts.minClusterSize, 10)
       /\ \A k \in a..b : order[k] \in OutlierSet

\* Sample j has at least minPts samples within epsDeg, itself included.
IsCore(j) == Cardinality({k \in 1..n : dist(j, k) <= epsOf(opts)}) >= minPtsOf(opts)

\* C27: with epsDeg >= 0 and minPts >= 1, a sample is an outlier of
\* dbscanPlanes exactly when it is not a core sample and is not within
\* epsDeg of a core sample; the condition does not mention the input order.
C27_OutliersAreUnreachable ==
  (DbscanDone /\ result.returned /\ epsOf(opts) >= 0 /\ minPtsOf(opts) >= 1)
    => \A j \in 1..n :
         j \in OutlierSet
           <=> (~IsCore(j) /\ \A c \in 1..n : IsCore(c) => dist(j, c) > epsOf(opts))

\* C27 witness: the first sample of the input is not a core sample, so the
\* outer loop labelled it noise, and it is returned in a cluster.
C27_Witness ==
  /\ DbscanDone
  /\ result.returned
  /\ epsOf(opts) >= 0 /\ minPtsOf(opts) >= 1
  /\ n >= 1
  /\ ~IsCore(1)
  /\ 1 \in Clustered
  /\ OutlierSet = {}

\* Every entry of the registry m is still in m2 under its ID, unchanged.
Preserved(m, m2) ==
  \A j \in 1..Len(m) : MapHas(m2, m[j].id) /\ MapGet(m2, m[j].id) = m[j]

\* C28: a resize keeps every registered plane, line and cluster under its
\* ID with the same dip angle, dip direction and colour.
C28_ResizePreservesIds ==
  [][(netRet'.op = "resize" /\ netCount' = netCount)
       => /\ Preserved(netPlanes, netPlanes')
          /\ Preserved(netLines, netLines')
          /\ Preserved(netClusters, netClusters')]_vars

====
